---- MODULE Spec2Model ----
(***************************************************************************)
(* A model of backup_grafana_dashboards.py: the folder-structure builder,  *)
(* the dashboard exporter, the export loop and main()'s pre-flight checks. *)
(*                                                                         *)
(* Strings the code inspects character by character (titles, paths) are    *)
(* sequences of one-character strings; uids and dict keys are strings.     *)
(* A Python dict is a sequence of [k, v] entries in insertion order.       *)
(***************************************************************************)
EXTENDS Naturals, Sequences, FiniteSets, TLC

VARIABLES
    \* build_folder_structure(folders, dashboards, output_dir)
    folders,            \* the /api/folders response
    dashboards,         \* the /api/search response
    i,                  \* number of search items the for loop has processed
    folder_structure,   \* the dict under construction / the returned dict
    bpc,                \* "idle" | "loop" | "done"
    \* the filename sanitization of export_dashboard (line 122)
    dashboard_title,    \* the title passed to export_dashboard
    sanitized_title,    \* <<>> or <<the sanitized title>>
    resanitized_title,  \* <<>> or <<the sanitized title, sanitized again>>
    \* export_dashboard
    dashboard,          \* response.json()['dashboard'] of the platform
    export_sharing,     \* the enrichment flag
    written,            \* the documents json.dump wrote, one per completed run
    epc,                \* "idle" | "ready" | "exported" | "exported_again" |
                        \* "fetch_failed" | "scan_failed"
    \* the file system
    dirs,               \* the directories that exist
    files,              \* dict: path -> the document the file holds
    start_disk,         \* the file system as main() found it
    \* main() and export_dashboards
    args,               \* the parsed command line
    mpc,                \* control position of main() / export_dashboards
    exit_status,        \* "running" | "0" | "1"
    raised,             \* the uncaught exception, "" when there is none
    requests,           \* the API requests sent so far, in order
    fi,                 \* position of the folder loop (line 141)
    di,                 \* dashboards of the current folder already exported
    total_folders_created,
    total_dashboards_exported,
    summary             \* <<>> or <<the two counts printed at lines 151-153>>

buildVars == <<folders, dashboards, i, folder_structure, bpc>>
sanitizeVars == <<dashboard_title, sanitized_title, resanitized_title>>
exportVars == <<dashboard, export_sharing, written, epc>>
diskVars == <<dirs, files, start_disk>>
mainVars == <<args, mpc, exit_status, raised, requests, fi, di,
              total_folders_created, total_dashboards_exported, summary>>
vars == <<folders, dashboards, i, folder_structure, bpc,
          dashboard_title, sanitized_title, resanitized_title,
          dashboard, export_sharing, written, epc, dirs, files, start_disk,
          args, mpc, exit_status, raised, requests, fi, di,
          total_folders_created, total_dashboards_exported, summary>>

-----------------------------------------------------------------------------
(* Bounds *)

\* longest search response of the folder-structure specification
MaxItems == 3
\* longest title of the sanitization specification
MaxTitleLen == 3
\* most top-level keys of a fetched dashboard, most panels of one
MaxKeys == 2
MaxPanels == 2
\* longest search response of the export-loop specification, and of main()
MaxLoopItems == 2
MaxMainItems == 1

-----------------------------------------------------------------------------
(* Python dicts: insertion-ordered, keyed sequences of entries *)

None == "None"

RECURSIVE IndexOf(_, _, _)
IndexOf(d, k, n) ==
    IF n > Len(d) THEN 0
    ELSE IF d[n].k = k THEN n
    ELSE IndexOf(d, k, n + 1)

DictKeys(d) == [n \in 1..Len(d) |-> d[n].k]
DictHas(d, k) == IndexOf(d, k, 1) # 0
DictGet(d, k) == d[IndexOf(d, k, 1)].v

\* d[k] = v: an existing key keeps its position, a new key goes last
DictSet(d, k, v) ==
    IF DictHas(d, k)
    THEN [d EXCEPT ![IndexOf(d, k, 1)] = [k |-> k, v |-> v]]
    ELSE Append(d, [k |-> k, v |-> v])

RECURSIVE DictUpdate(_, _)
DictUpdate(d, e) ==
    IF e = <<>> THEN d
    ELSE DictUpdate(DictSet(d, Head(e).k, Head(e).v), Tail(e))

-----------------------------------------------------------------------------
(* os.path *)

Sep == "/"

\* os.path.join(a, b) on POSIX: an absolute b discards a
Join(a, b) ==
    IF b # <<>> /\ b[1] = Sep THEN b
    ELSE IF a = <<>> \/ a[Len(a)] = Sep THEN a \o b
    ELSE a \o <<Sep>> \o b

-----------------------------------------------------------------------------
(* The platform's data *)

FolderUids == {"f1", "f2", "n1"}
DashboardUids == {"d1", "d2"}

\* titles as the platform returns them, per uid
TitleOf(uid) ==
    CASE uid = "f1" -> <<"F">>
      [] uid = "f2" -> <<"G">>
      [] uid = "n1" -> <<"N">>
      [] uid = "d1" -> <<"a">>
      [] uid = "d2" -> <<"a", "!">>
      [] OTHER -> <<"x">>

\* entries of the /api/folders response
FolderRecords == { [uid |-> u, title |-> TitleOf(u)] : u \in {"f1", "f2"} }

\* entries of the /api/search response; folderUid None is an absent key
SearchItems ==
    { [uid |-> u, title |-> TitleOf(u), type |-> "dash-db", folderUid |-> p] :
        u \in DashboardUids, p \in FolderUids \cup {None} }
    \cup
    { [uid |-> u, title |-> TitleOf(u), type |-> "dash-folder", folderUid |-> p] :
        u \in FolderUids, p \in FolderUids \cup {None} }

UniqueUids(s) == \A a, b \in 1..Len(s) : a # b => s[a].uid # s[b].uid

SeqsUpTo(S, n) == UNION { [1..m -> S] : m \in 0..n }

FolderLists == { s \in SeqsUpTo(FolderRecords, 2) : UniqueUids(s) }
SearchLists(n) == { s \in SeqsUpTo(SearchItems, n) : UniqueUids(s) }

OutputDir == <<"o">>

-----------------------------------------------------------------------------
(* build_folder_structure *)

\* the dict comprehension of line 74; a node without dashboards has no
\* 'dashboards' key, modelled as the empty list
RECURSIVE InitialStructure(_, _)
InitialStructure(fl, output_dir) ==
    IF fl = <<>> THEN <<>>
    ELSE LET rest == InitialStructure(SubSeq(fl, 1, Len(fl) - 1), output_dir)
             f == fl[Len(fl)]
         IN DictSet(rest, f.uid,
                    [title |-> f.title,
                     path |-> Join(output_dir, f.title),
                     dashboards |-> <<>>])

\* a variant of line 81 that updates a node already in the dict in place
InsertFolderInPlace(fs, item, folder_path) ==
    IF DictHas(fs, item.uid)
    THEN DictSet(fs, item.uid,
                 [DictGet(fs, item.uid) EXCEPT !.title = item.title,
                                               !.path = folder_path])
    ELSE DictSet(fs, item.uid,
                 [title |-> item.title, path |-> folder_path, dashboards |-> <<>>])

\* line 81: the item's uid is bound to a fresh node
InsertFolder(fs, item, folder_path) ==
    DictSet(fs, item.uid,
            [title |-> item.title, path |-> folder_path, dashboards |-> <<>>])

\* lines 83-87: the reference is appended to the parent's list
AttachDashboard(fs, item, folder_path) ==
    LET node == DictGet(fs, item.folderUid)
    IN DictSet(fs, item.folderUid,
               [node EXCEPT !.dashboards =
                    Append(@, [uid |-> item.uid,
                               title |-> item.title,
                               path |-> node.path])])

\* one iteration of the loop of lines 76-87
BuildStep(fs, item) ==
    IF DictHas(fs, item.folderUid)
    THEN LET folder_path == Join(DictGet(fs, item.folderUid).path, item.title)
         IN IF item.type = "dash-folder"
            THEN InsertFolder(fs, item, folder_path)
            ELSE AttachDashboard(fs, item, folder_path)
    ELSE fs

RECURSIVE BuildPrefix(_, _, _, _)
BuildPrefix(fl, ds, output_dir, n) ==
    IF n = 0 THEN InitialStructure(fl, output_dir)
    ELSE BuildStep(BuildPrefix(fl, ds, output_dir, n - 1), ds[n])

build_folder_structure(fl, ds, output_dir) ==
    BuildPrefix(fl, ds, output_dir, Len(ds))

\* the state of the components a specification leaves alone
SanitizeIdle ==
    /\ dashboard_title = <<>>
    /\ sanitized_title = <<>>
    /\ resanitized_title = <<>>
ExportIdle ==
    /\ dashboard = <<>>
    /\ export_sharing = FALSE
    /\ written = <<>>
    /\ epc = "idle"
DiskEmpty ==
    /\ dirs = {}
    /\ files = <<>>
    /\ start_disk = [dirs |-> {}, files |-> <<>>]
MainIdle ==
    /\ args = [grafana_url |-> "", api_key |-> "", save_folder |-> <<>>,
               export_sharing |-> "absent", force |-> "absent"]
    /\ mpc = "idle"
    /\ exit_status = "running"
    /\ raised = ""
    /\ requests = <<>>
    /\ fi = 0
    /\ di = 0
    /\ total_folders_created = 0
    /\ total_dashboards_exported = 0
    /\ summary = <<>>
BuildIdle ==
    /\ folders = <<>>
    /\ dashboards = <<>>
    /\ i = 0
    /\ folder_structure = <<>>
    /\ bpc = "idle"

BuildInit ==
    /\ folders \in FolderLists
    /\ dashboards \in SearchLists(MaxItems)
    /\ i = 0
    /\ folder_structure = <<>>
    /\ bpc = "idle"
    /\ SanitizeIdle /\ ExportIdle /\ DiskEmpty /\ MainIdle

\* line 74
BuildStart ==
    /\ bpc = "idle"
    /\ folder_structure' = InitialStructure(folders, OutputDir)
    /\ bpc' = "loop"
    /\ UNCHANGED <<folders, dashboards, i>>
    /\ UNCHANGED <<sanitizeVars, exportVars, diskVars, mainVars>>

\* lines 76-87, one item
BuildItem ==
    /\ bpc = "loop"
    /\ i < Len(dashboards)
    /\ folder_structure' = BuildStep(folder_structure, dashboards[i + 1])
    /\ i' = i + 1
    /\ UNCHANGED <<folders, dashboards, bpc>>
    /\ UNCHANGED <<sanitizeVars, exportVars, diskVars, mainVars>>

\* line 89
BuildReturn ==
    /\ bpc = "loop"
    /\ i = Len(dashboards)
    /\ bpc' = "done"
    /\ UNCHANGED <<folders, dashboards, i, folder_structure>>
    /\ UNCHANGED <<sanitizeVars, exportVars, diskVars, mainVars>>

BuildNext == BuildStart \/ BuildItem \/ BuildReturn

SpecBuild == BuildInit /\ [][BuildNext]_vars

-----------------------------------------------------------------------------
(* Properties of build_folder_structure *)

IsFolderItem(item) == item.type = "dash-folder"
ListedUids == { folders[n].uid : n \in 1..Len(folders) }
FolderItemUids ==
    { dashboards[n].uid : n \in { m \in 1..Len(dashboards) : IsFolderItem(dashboards[m]) } }
ParentOf(u) ==
    LET n == CHOOSE m \in 1..Len(dashboards) : dashboards[m].uid = u
    IN dashboards[n].folderUid

\* u is a listed folder, or a nested folder whose chain of parents ends in one
RECURSIVE Rooted(_, _)
Rooted(u, depth) ==
    \/ u \in ListedUids
    \/ /\ depth > 0
       /\ u \in FolderItemUids
       /\ Rooted(ParentOf(u), depth - 1)

\* uids are unique across both responses, and every folderUid is absent or
\* names a folder that hangs, through its parents, under a listed folder
WellFormed ==
    /\ FolderItemUids \cap ListedUids = {}
    /\ \A n \in 1..Len(dashboards) :
           \/ dashboards[n].folderUid = None
           \/ Rooted(dashboards[n].folderUid, Cardinality(FolderUids))

RefsOf(fs, k) == DictGet(fs, k).dashboards
Occurrences(refs, uid) == Cardinality({ n \in 1..Len(refs) : refs[n].uid = uid })
RECURSIVE SumOccurrences(_, _, _)
SumOccurrences(fs, uid, n) ==
    IF n = 0 THEN 0
    ELSE Occurrences(fs[n].v.dashboards, uid) + SumOccurrences(fs, uid, n - 1)

\* C1: in the returned mapping, every dashboard-type search item whose
\* folderUid names a folder of the mapping occurs exactly once, in the
\* dashboard list of the node keyed by that folderUid (well-formed inputs,
\* any order of the search results).
C1_EveryResolvedDashboardOnce ==
    (bpc = "done" /\ WellFormed) =>
        \A n \in 1..Len(dashboards) :
            LET item == dashboards[n] IN
            (~IsFolderItem(item) /\ DictHas(folder_structure, item.folderUid)) =>
                /\ Occurrences(RefsOf(folder_structure, item.folderUid), item.uid) = 1
                /\ SumOccurrences(folder_structure, item.uid, Len(folder_structure)) = 1

\* C2: in the returned mapping, every nested folder of the search results (a
\* folder-type item that is not a listed folder) is a key, and its path is
\* its parent node's path joined with its title (well-formed inputs, any
\* position in the search results).
C2_EveryNestedFolderPresent ==
    (bpc = "done" /\ WellFormed) =>
        \A n \in 1..Len(dashboards) :
            LET item == dashboards[n] IN
            (IsFolderItem(item) /\ item.folderUid # None) =>
                /\ DictHas(folder_structure, item.uid)
                /\ DictHas(folder_structure, item.folderUid)
                /\ DictGet(folder_structure, item.uid).path =
                       Join(DictGet(folder_structure, item.folderUid).path, item.title)

\* C10: at every step of the loop and in the result, every dashboard
\* reference of every node carries that node's current path.
C10_RefPathIsNodePath ==
    \A n \in 1..Len(folder_structure) :
        LET node == folder_structure[n].v IN
        \A r \in 1..Len(node.dashboards) : node.dashboards[r].path = node.path

\* a folder-type item re-inserted a key whose node already held dashboards,
\* and the result still holds a dashboard reference
C10_Witness ==
    /\ bpc = "done"
    /\ \E n \in 1..Len(dashboards) :
          LET before == BuildPrefix(folders, dashboards, OutputDir, n - 1)
              item == dashboards[n]
          IN /\ IsFolderItem(item)
             /\ DictHas(before, item.folderUid)
             /\ DictHas(before, item.uid)
             /\ RefsOf(before, item.uid) # <<>>
    /\ \E n \in 1..Len(folder_structure) : folder_structure[n].v.dashboards # <<>>

-----------------------------------------------------------------------------
(* The filename sanitization of export_dashboard, line 122 *)

AsciiLetters ==
    {"a", "b", "c", "d", "e", "f", "g", "h", "i", "j", "k", "l", "m",
     "n", "o", "p", "q", "r", "s", "t", "u", "v", "w", "x", "y", "z",
     "A", "B", "C", "D", "E", "F", "G", "H", "I", "J", "K", "L", "M",
     "N", "O", "P", "Q", "R", "S", "T", "U", "V", "W", "X", "Y", "Z"}
AsciiDigits == {"0", "1", "2", "3", "4", "5", "6", "7", "8", "9"}
\* letters and digits outside ASCII; "U+00E9" stands for the one character
\* LATIN SMALL LETTER E WITH ACUTE, "U+00B2" for SUPERSCRIPT TWO
OtherAlnum == {"U+00E9", "U+00B2"}

\* str.isalnum() of a one-character string
IsAlnum(c) == c \in AsciiLetters \cup AsciiDigits \cup OtherAlnum
\* the characters str.strip() removes
IsSpace(c) == c \in {" ", "\t", "\n"}

\* e.isalnum() or e in (' ', '-', '_')
Kept(c) == IsAlnum(c) \/ c \in {" ", "-", "_"}

RECURSIVE LStrip(_)
LStrip(t) == IF t # <<>> /\ IsSpace(Head(t)) THEN LStrip(Tail(t)) ELSE t
RECURSIVE RStrip(_)
RStrip(t) ==
    IF t # <<>> /\ IsSpace(t[Len(t)]) THEN RStrip(SubSeq(t, 1, Len(t) - 1)) ELSE t
Strip(t) == LStrip(RStrip(t))

\* the join of the kept characters, without the strip()
SanitizeUnstripped(t) == SelectSeq(t, Kept)

\* ''.join(e for e in dashboard_title if ...).strip()
Sanitize(t) == Strip(SelectSeq(t, Kept))

TitleChars == {"a", "Z", "7", " ", "-", "_", "/", "!", "\t", "U+00E9"}

ExampleTitle ==
    <<"M", "y", " ", "D", "a", "s", "h", "/", "B", "o", "a", "r", "d", ":",
      " ", "v", "2", "!">>
ExampleSanitized ==
    <<"M", "y", " ", "D", "a", "s", "h", "B", "o", "a", "r", "d", " ", "v", "2">>

SanitizeInit ==
    /\ dashboard_title \in SeqsUpTo(TitleChars, MaxTitleLen) \cup {ExampleTitle}
    /\ sanitized_title = <<>>
    /\ resanitized_title = <<>>
    /\ BuildIdle /\ ExportIdle /\ DiskEmpty /\ MainIdle

\* line 122 on the title
SanitizeTitle ==
    /\ sanitized_title = <<>>
    /\ sanitized_title' = <<Sanitize(dashboard_title)>>
    /\ UNCHANGED <<dashboard_title, resanitized_title>>
    /\ UNCHANGED <<buildVars, exportVars, diskVars, mainVars>>

\* line 122 on its own result
SanitizeAgain ==
    /\ sanitized_title # <<>>
    /\ resanitized_title = <<>>
    /\ resanitized_title' = <<Sanitize(sanitized_title[1])>>
    /\ UNCHANGED <<dashboard_title, sanitized_title>>
    /\ UNCHANGED <<buildVars, exportVars, diskVars, mainVars>>

SanitizeNext == SanitizeTitle \/ SanitizeAgain

SpecSanitize == SanitizeInit /\ [][SanitizeNext]_vars

AsciiSafe == AsciiLetters \cup AsciiDigits \cup {" ", "-", "_"}

\* s is t with some characters left out
RECURSIVE IsSubsequence(_, _)
IsSubsequence(s, t) ==
    IF s = <<>> THEN TRUE
    ELSE IF t = <<>> THEN FALSE
    ELSE IF Head(s) = Head(t) THEN IsSubsequence(Tail(s), Tail(t))
    ELSE IsSubsequence(s, Tail(t))

NoOuterSpace(r) == r = <<>> \/ (r[1] # " " /\ r[Len(r)] # " ")
CountOf(t, c) == Cardinality({ n \in 1..Len(t) : t[n] = c })

\* C8 as stated: the sanitization is idempotent and its result holds only
\* characters of [A-Za-z0-9 _-], with no leading or trailing space, in their
\* original order.
C8_AsciiOnly ==
    /\ sanitized_title # <<>> =>
          LET r == sanitized_title[1] IN
          /\ \A n \in 1..Len(r) : r[n] \in AsciiSafe
          /\ NoOuterSpace(r)
          /\ IsSubsequence(r, dashboard_title)
    /\ resanitized_title # <<>> => resanitized_title[1] = sanitized_title[1]

\* C8 amended: the sanitization is idempotent and its result holds only
\* characters that are alphanumeric in Python's sense (str.isalnum, which
\* accepts letters and digits outside ASCII) or space, hyphen, underscore,
\* with no leading or trailing space; every character of the title other
\* than a space is kept exactly when it is of that class, in the original
\* order; the example title gives the example result.
C8_Sanitize ==
    /\ sanitized_title # <<>> =>
          LET r == sanitized_title[1] IN
          /\ \A n \in 1..Len(r) : IsAlnum(r[n]) \/ r[n] \in {" ", "-", "_"}
          /\ NoOuterSpace(r)
          /\ IsSubsequence(r, dashboard_title)
          /\ \A c \in TitleChars \cup AsciiSafe :
                c # " " =>
                    CountOf(r, c) =
                        IF IsAlnum(c) \/ c \in {"-", "_"}
                        THEN CountOf(dashboard_title, c) ELSE 0
          /\ dashboard_title = ExampleTitle => r = ExampleSanitized
    /\ resanitized_title # <<>> => resanitized_title[1] = sanitized_title[1]

\* a title with a kept non-ASCII letter and an outer space has been
\* sanitized twice
C8_Witness ==
    /\ Len(dashboard_title) > 1
    /\ dashboard_title[1] = " "
    /\ \E n \in 1..Len(dashboard_title) : dashboard_title[n] = "U+00E9"
    /\ \E n \in 1..Len(dashboard_title) : dashboard_title[n] = "/"
    /\ resanitized_title # <<>>

-----------------------------------------------------------------------------
(* JSON values of a dashboard document: strings, lists and null *)

Str(x) == [t |-> "str", s |-> x, l |-> <<>>]
List(x) == [t |-> "list", s |-> "", l |-> x]
Null == [t |-> "null", s |-> "", l |-> <<>>]

\* datasource_map, lines 31-56
datasource_map ==
    [ds \in {"prometheus", "loki", "influxdb"} |->
        CASE ds = "prometheus" ->
                 [name |-> "DS_PROMETHEUS", label |-> "Prometheus", description |-> "",
                  type |-> "datasource", pluginId |-> "prometheus",
                  pluginName |-> "Prometheus"]
          [] ds = "loki" ->
                 [name |-> "DS_LOKI", label |-> "Loki", description |-> "",
                  type |-> "datasource", pluginId |-> "loki", pluginName |-> "Loki"]
          [] ds = "influxdb" ->
                 [name |-> "DS_INFLUXDB", label |-> "InfluxDB", description |-> "",
                  type |-> "datasource", pluginId |-> "influxdb",
                  pluginName |-> "InfluxDB"]]

\* the first entry of requires, line 100
GrafanaRequirement ==
    [type |-> "grafana", id |-> "grafana", name |-> "Grafana", version |-> "11.0.0"]

\* a panel's 'datasource': no such key, JSON null, an object without a
\* 'type' key, or an object with one
NoDatasource == [kind |-> "absent", type |-> None]
NullDatasource == [kind |-> "null", type |-> None]
UntypedDatasource == [kind |-> "dict", type |-> None]
TypedDatasource(ty) == [kind |-> "dict", type |-> ty]

DatasourceTypes == {"prometheus", "loki", "influxdb", "unknown_ds"}
Panels ==
    { [datasource |-> ds] :
        ds \in {NoDatasource, NullDatasource, UntypedDatasource}
               \cup { TypedDatasource(ty) : ty \in DatasourceTypes } }

\* dashboard['dashboard'].get('panels', [])
PanelsOf(d) == IF DictHas(d, "panels") THEN DictGet(d, "panels").l ELSE <<>>

\* line 104 on a null datasource: 'type' in None raises TypeError
ScanRaises(panels) ==
    \E n \in 1..Len(panels) : panels[n].datasource.kind = "null"

\* lines 102-105: the set of the panels' datasource types
PanelTypes(panels) ==
    { panels[n].datasource.type :
        n \in { m \in 1..Len(panels) :
                  /\ panels[m].datasource.kind = "dict"
                  /\ panels[m].datasource.type # None } }

\* the orders in which "for ds in datasources" may visit a set of strings
\* (string hashes are salted per process)
IterationOrders(S) ==
    { o \in [1..Cardinality(S) -> S] :
        \A a, b \in 1..Cardinality(S) : a # b => o[a] # o[b] }

\* lines 107-109, without the membership test of line 108
RECURSIVE InputsUnfiltered(_)
InputsUnfiltered(order) ==
    IF order = <<>> THEN <<>>
    ELSE <<IF Head(order) \in DOMAIN datasource_map
           THEN datasource_map[Head(order)]
           ELSE [name |-> "DS_UNKNOWN", label |-> Head(order), description |-> "",
                 type |-> "datasource", pluginId |-> Head(order),
                 pluginName |-> Head(order)]>>
         \o InputsUnfiltered(Tail(order))

\* lines 107-109: inputs
RECURSIVE Inputs(_)
Inputs(order) ==
    IF order = <<>> THEN <<>>
    ELSE (IF Head(order) \in DOMAIN datasource_map
          THEN <<datasource_map[Head(order)]>> ELSE <<>>)
         \o Inputs(Tail(order))

\* lines 100, 107-115: requires
RECURSIVE DatasourceRequirements(_)
DatasourceRequirements(order) ==
    IF order = <<>> THEN <<>>
    ELSE (IF Head(order) \in DOMAIN datasource_map
          THEN <<[type |-> "datasource", id |-> Head(order),
                  name |-> datasource_map[Head(order)].pluginName,
                  version |-> "1.0.0"]>>
          ELSE <<>>)
         \o DatasourceRequirements(Tail(order))
Requires(order) == <<GrafanaRequirement>> \o DatasourceRequirements(order)

\* lines 117-118
Enrich(d, order) ==
    DictSet(DictSet(d, "__inputs", List(Inputs(order))),
            "__requires", List(Requires(order)))

\* the document with the enrichment done whatever the flag says
EnrichedAlways(d, flag, order) == Enrich(d, order)

\* lines 98-118
Enriched(d, flag, order) == IF flag THEN Enrich(d, order) ELSE d

SpecificKeys == <<"timezone", "title", "uid", "version", "weekStart">>
SharingKeys == <<"__inputs", "__requires">>

\* line 120: dict.get gives None for a missing key
SpecificInfo(d) ==
    [n \in 1..Len(SpecificKeys) |->
        [k |-> SpecificKeys[n],
         v |-> IF DictHas(d, SpecificKeys[n]) THEN DictGet(d, SpecificKeys[n]) ELSE Null]]

\* line 127
RECURSIVE Leading(_, _)
Leading(d, ks) ==
    IF ks = <<>> THEN <<>>
    ELSE (IF DictHas(d, Head(ks))
          THEN <<[k |-> Head(ks), v |-> DictGet(d, Head(ks))]>> ELSE <<>>)
         \o Leading(d, Tail(ks))

\* lines 120, 126-129: dashboard_data_ordered
Ordered(d) == DictUpdate(DictUpdate(Leading(d, SharingKeys), d), SpecificInfo(d))

\* the document json.dump writes; json.dump is one-to-one on ordered
\* documents, so the document stands for the file's bytes
ExportedDocument(d, flag, order) == Ordered(Enriched(d, flag, order))

Ext == <<".", "j", "s", "o", "n">>

\* line 123
OutputPath(folder_path, title) == Join(folder_path, Sanitize(title) \o Ext)

\* os.makedirs: the directory and every missing ancestor
Ancestors(p) == { SubSeq(p, 1, k - 1) : k \in { j \in 2..Len(p) : p[j] = Sep } }
Makedirs(ds, p) == ds \cup {p} \cup Ancestors(p)

-----------------------------------------------------------------------------
(* export_dashboard on one dashboard, run again on the unchanged dashboard *)

KeyPool == {"__inputs", "__requires", "id", "panels", "title"}

Distinct(seq) == \A a, b \in 1..Len(seq) : a # b => seq[a] # seq[b]
KeyLayouts == { ks \in SeqsUpTo(KeyPool, MaxKeys) : Distinct(ks) }
PanelLists == SeqsUpTo(Panels, MaxPanels)

\* the value the platform stores under a key
StoredValue(k, panels) ==
    CASE k = "panels" -> List(panels)
      [] k \in {"__inputs", "__requires"} -> List(<<[name |-> "DS_STORED"]>>)
      [] OTHER -> Str("v")

Document(ks, panels) == [n \in 1..Len(ks) |-> [k |-> ks[n], v |-> StoredValue(ks[n], panels)]]

HasKey(ks, k) == \E n \in 1..Len(ks) : ks[n] = k

FetchedDashboards ==
    { Document(ks, <<>>) : ks \in { l \in KeyLayouts : ~HasKey(l, "panels") } }
    \cup
    { Document(c[1], c[2]) :
        c \in { l \in KeyLayouts : HasKey(l, "panels") } \X PanelLists }

ExportUid == "d2"
ExportFolderPath == Join(OutputDir, TitleOf("f1"))

ExportInit ==
    /\ dashboard \in FetchedDashboards
    /\ export_sharing \in BOOLEAN
    /\ dashboard_title = TitleOf(ExportUid)
    /\ sanitized_title = <<>>
    /\ resanitized_title = <<>>
    /\ written = <<>>
    /\ epc = "ready"
    /\ BuildIdle /\ DiskEmpty /\ MainIdle

\* lines 93-134, a run that completes: the first, or a second one on the
\* unchanged dashboard
ExportDashboard ==
    /\ epc \in {"ready", "exported"}
    /\ ~(export_sharing /\ ScanRaises(PanelsOf(dashboard)))
    /\ \E order \in IterationOrders(PanelTypes(PanelsOf(dashboard))) :
          /\ written' = Append(written, ExportedDocument(dashboard, export_sharing, order))
          /\ dirs' = Makedirs(dirs, ExportFolderPath)
          /\ files' = DictSet(files, OutputPath(ExportFolderPath, dashboard_title),
                              written'[Len(written')])
    /\ epc' = IF epc = "ready" THEN "exported" ELSE "exported_again"
    /\ UNCHANGED <<dashboard, export_sharing, sanitizeVars, buildVars, start_disk, mainVars>>

\* line 95: raise_for_status raises
ExportFetchFails ==
    /\ epc = "ready"
    /\ epc' = "fetch_failed"
    /\ UNCHANGED <<dashboard, export_sharing, written, sanitizeVars, buildVars, diskVars,
                   mainVars>>

\* line 104: the scan of the panels raises TypeError
ExportScanFails ==
    /\ epc = "ready"
    /\ export_sharing /\ ScanRaises(PanelsOf(dashboard))
    /\ epc' = "scan_failed"
    /\ UNCHANGED <<dashboard, export_sharing, written, sanitizeVars, buildVars, diskVars,
                   mainVars>>

ExportNext == ExportDashboard \/ ExportFetchFails \/ ExportScanFails

SpecExport == ExportInit /\ [][ExportNext]_vars

-----------------------------------------------------------------------------
(* Properties of export_dashboard *)

Range(seq) == { seq[n] : n \in 1..Len(seq) }

\* the table's types that some panel of the fetched dashboard names
KnownTypesUsed ==
    { ty \in DOMAIN datasource_map :
        \E n \in 1..Len(PanelsOf(dashboard)) :
            PanelsOf(dashboard)[n].datasource = TypedDatasource(ty) }

\* C4: with enrichment requested, the written document's __inputs holds
\* exactly one entry per distinct panel datasource type of the built-in
\* table and nothing else; __requires holds the host-platform entry first,
\* then exactly one datasource entry per such type; a type that is not in
\* the table adds no entry and raises no error.
C4_SharingEntries ==
    /\ export_sharing =>
          \A r \in 1..Len(written) :
              LET ins == DictGet(written[r], "__inputs").l
                  reqs == DictGet(written[r], "__requires").l
              IN /\ Len(ins) = Cardinality(KnownTypesUsed)
                 /\ \A ty \in KnownTypesUsed :
                        Cardinality({ n \in 1..Len(ins) : ins[n] = datasource_map[ty] }) = 1
                 /\ Len(reqs) = 1 + Cardinality(KnownTypesUsed)
                 /\ reqs[1] = GrafanaRequirement
                 /\ \A ty \in KnownTypesUsed :
                        Cardinality({ n \in 2..Len(reqs) :
                            reqs[n] = [type |-> "datasource", id |-> ty,
                                       name |-> datasource_map[ty].pluginName,
                                       version |-> "1.0.0"] }) = 1
    /\ epc = "scan_failed" =>
          \E n \in 1..Len(PanelsOf(dashboard)) :
              PanelsOf(dashboard)[n].datasource = NullDatasource

\* panels on "prometheus" and on the unlisted "unknown_ds", exported
\* with enrichment
C4_Witness ==
    /\ export_sharing
    /\ written # <<>>
    /\ PanelTypes(PanelsOf(dashboard)) = {"prometheus", "unknown_ds"}

\* C5 as stated: with enrichment not requested, the written document has
\* neither an __inputs nor a __requires key, whatever was fetched.
C5_NoSharingKeys ==
    ~export_sharing =>
        \A r \in 1..Len(written) :
            \A k \in Range(SharingKeys) : ~DictHas(written[r], k)

\* C5 amended: with enrichment not requested, export_dashboard adds no
\* __inputs or __requires key: the written document has each of the two keys
\* exactly when the fetched dashboard has it, with the fetched value.
C5_NoSharingKeysAdded ==
    ~export_sharing =>
        \A r \in 1..Len(written) :
            \A k \in Range(SharingKeys) :
                /\ DictHas(written[r], k) <=> DictHas(dashboard, k)
                /\ DictHas(dashboard, k) => DictGet(written[r], k) = DictGet(dashboard, k)

\* a dashboard with panels on a known type, fetched with __inputs and
\* without __requires, was exported without enrichment
C5_Witness ==
    /\ ~export_sharing
    /\ written # <<>>
    /\ DictHas(dashboard, "__inputs")
    /\ ~DictHas(dashboard, "__requires")
    /\ KnownTypesUsed # {}

\* C6: export_dashboard run again on the unchanged dashboard with the same
\* flag writes the same bytes, the order of the entries of __inputs and
\* __requires included.
C6_RerunIdentical ==
    \A a, b \in 1..Len(written) : written[a] = written[b]

\* the keys of d other than the sharing keys and the five specific keys
OtherKeys(d) ==
    SelectSeq(DictKeys(d), LAMBDA k : k \notin Range(SharingKeys) \cup Range(SpecificKeys))

\* C7: the written document's keys are __inputs and __requires first when
\* present, then the other keys of the fetched dashboard, then timezone,
\* title, uid, version, weekStart as the last five keys, in that order,
\* whether or not the fetched dashboard had those five keys.
C7_KeyOrder ==
    \A r \in 1..Len(written) :
        DictKeys(written[r]) =
            SelectSeq(SharingKeys, LAMBDA k : DictHas(written[r], k))
            \o OtherKeys(dashboard) \o SpecificKeys

-----------------------------------------------------------------------------
(* The command line, the file system and the platform as main() sees them *)

\* lines 24-26; <<"b">> abbreviates 'backup_dashboard_grafana'
default_grafana_url == ""
default_api_key == ""
default_output_dir == <<"b">>

\* argparse with type=bool: bool() of the argument's text, so every
\* non-empty text, "False" included, is True; "absent" is an option not given
ParsedBool(text, default) == IF text = "absent" THEN default ELSE text # ""

\* lines 164-168
GrafanaUrl == IF args.grafana_url # "" THEN args.grafana_url ELSE default_grafana_url
ApiKey == IF args.api_key # "" THEN args.api_key ELSE default_api_key
ResolvedOutputDir == IF args.save_folder # <<>> THEN args.save_folder ELSE default_output_dir
ExportSharing == ParsedBool(args.export_sharing, TRUE)
ForceWrite == ParsedBool(args.force, FALSE)

CommandLines ==
    [grafana_url : {"", "u"},
     api_key : {"", "k"},
     save_folder : {<<>>, OutputDir},
     export_sharing : {"absent", ""},
     force : {"absent", "", "False"}]

OldDocument == <<[k |-> "title", v |-> Str("old")]>>

\* the destination before the run: missing, an empty directory, a directory
\* with an earlier backup in it, or a plain file
StartDisks(od) ==
    { [dirs |-> {}, files |-> <<>>],
      [dirs |-> {od}, files |-> <<>>],
      [dirs |-> {od, Join(od, TitleOf("f1"))},
       files |-> <<[k |-> OutputPath(Join(od, TitleOf("f1")), TitleOf("d1")),
                    v |-> OldDocument]>>],
      [dirs |-> {}, files |-> <<[k |-> od, v |-> OldDocument]>>] }

\* os.path.exists
Exists(p) == p \in dirs \/ DictHas(files, p)

IsUnder(q, p) ==
    /\ Len(q) > Len(p) + 1
    /\ SubSeq(q, 1, Len(p)) = p
    /\ q[Len(p) + 1] = Sep

\* bool(os.listdir(p)) of a directory
ListdirNonEmpty(p) ==
    \/ \E q \in dirs : IsUnder(q, p)
    \/ \E n \in 1..Len(files) : IsUnder(files[n].k, p)

\* os.listdir of a plain file raises NotADirectoryError
ListdirRaises(p) == DictHas(files, p)

\* line 177 with the check passing whatever the directory holds
RefusesNever == FALSE

\* line 177
Refuses ==
    Exists(ResolvedOutputDir) /\ ListdirNonEmpty(ResolvedOutputDir) /\ ~ForceWrite

\* what GET /api/dashboards/uid/<uid> returns under 'dashboard'
ServerPanels(uid) ==
    IF uid = "d1"
    THEN <<[datasource |-> TypedDatasource("prometheus")],
           [datasource |-> TypedDatasource("loki")]>>
    ELSE <<[datasource |-> NullDatasource]>>
ServerDashboard(uid) ==
    <<[k |-> "panels", v |-> List(ServerPanels(uid))],
      [k |-> "title", v |-> Str("t")],
      [k |-> "uid", v |-> Str(uid)]>>

-----------------------------------------------------------------------------
(* main(), lines 164-189 *)

MainInit ==
    /\ args \in CommandLines
    /\ export_sharing = ExportSharing
    /\ start_disk \in StartDisks(ResolvedOutputDir)
    /\ dirs = start_disk.dirs
    /\ files = start_disk.files
    /\ mpc = "check_url"
    /\ exit_status = "running"
    /\ raised = ""
    /\ requests = <<>>
    /\ fi = 0
    /\ di = 0
    /\ total_folders_created = 0
    /\ total_dashboards_exported = 0
    /\ summary = <<>>
    /\ dashboard = <<>>
    /\ written = <<>>
    /\ epc = "idle"
    /\ BuildIdle /\ SanitizeIdle

mainRest == <<buildVars, sanitizeVars, exportVars, diskVars, args>>

\* sys.exit(1)
Exit1 == mpc' = "exited" /\ exit_status' = "1" /\ UNCHANGED raised

\* an uncaught exception ends the process with status 1
Crash(exception) == mpc' = "crashed" /\ exit_status' = "1" /\ raised' = exception

\* lines 170-172
CheckUrl ==
    /\ mpc = "check_url"
    /\ IF GrafanaUrl = ""
       THEN Exit1
       ELSE mpc' = "check_key" /\ UNCHANGED <<exit_status, raised>>
    /\ UNCHANGED <<requests, fi, di, total_folders_created,
                   total_dashboards_exported, summary, mainRest>>

\* lines 173-175
CheckKey ==
    /\ mpc = "check_key"
    /\ IF ApiKey = ""
       THEN Exit1
       ELSE mpc' = "check_dir" /\ UNCHANGED <<exit_status, raised>>
    /\ UNCHANGED <<requests, fi, di, total_folders_created,
                   total_dashboards_exported, summary, mainRest>>

\* lines 177-179; os.listdir raises when the destination is a plain file
CheckDir ==
    /\ mpc = "check_dir"
    /\ IF Exists(ResolvedOutputDir) /\ ListdirRaises(ResolvedOutputDir)
       THEN Crash("NotADirectoryError")
       ELSE IF Refuses
       THEN Exit1
       ELSE mpc' = "get_folders" /\ UNCHANGED <<exit_status, raised>>
    /\ UNCHANGED <<requests, fi, di, total_folders_created,
                   total_dashboards_exported, summary, mainRest>>

\* line 186, get_folder_list returns
GetFolderList ==
    /\ mpc = "get_folders"
    /\ \E fl \in FolderLists : folders' = fl
    /\ requests' = Append(requests, "folders")
    /\ mpc' = "get_dashboards"
    /\ UNCHANGED <<dashboards, i, folder_structure, bpc>>
    /\ UNCHANGED <<exit_status, raised, fi, di, total_folders_created,
                   total_dashboards_exported, summary,
                   sanitizeVars, exportVars, diskVars, args>>

\* line 186, raise_for_status raises (line 62)
GetFolderListFails ==
    /\ mpc = "get_folders"
    /\ requests' = Append(requests, "folders")
    /\ Crash("HTTPError")
    /\ UNCHANGED <<fi, di, total_folders_created, total_dashboards_exported,
                   summary, mainRest>>

\* line 187, get_all_dashboards_and_folders returns
GetAllDashboardsAndFolders ==
    /\ mpc = "get_dashboards"
    /\ \E ds \in SearchLists(MaxMainItems) : dashboards' = ds
    /\ requests' = Append(requests, "search")
    /\ mpc' = "build"
    /\ UNCHANGED <<folders, i, folder_structure, bpc>>
    /\ UNCHANGED <<exit_status, raised, fi, di, total_folders_created,
                   total_dashboards_exported, summary,
                   sanitizeVars, exportVars, diskVars, args>>

\* line 187, raise_for_status raises (line 69)
GetAllDashboardsAndFoldersFails ==
    /\ mpc = "get_dashboards"
    /\ requests' = Append(requests, "search")
    /\ Crash("HTTPError")
    /\ UNCHANGED <<fi, di, total_folders_created, total_dashboards_exported,
                   summary, mainRest>>

\* line 188, and the entry of export_dashboards (lines 138-141)
BuildFolderStructure ==
    /\ mpc = "build"
    /\ folder_structure' = build_folder_structure(folders, dashboards, ResolvedOutputDir)
    /\ i' = Len(dashboards)
    /\ bpc' = "done"
    /\ mpc' = "folder"
    /\ fi' = 1
    /\ di' = 0
    /\ UNCHANGED <<folders, dashboards>>
    /\ UNCHANGED <<exit_status, raised, requests, total_folders_created,
                   total_dashboards_exported, summary,
                   sanitizeVars, exportVars, diskVars, args>>

-----------------------------------------------------------------------------
(* export_dashboards, lines 136-153, with export_dashboard, lines 91-134 *)

loopRest == <<buildVars, sanitizeVars, exportVars, start_disk, args>>

CurrentNode == folder_structure[fi].v
CurrentRef == CurrentNode.dashboards[di + 1]
CurrentDocuments ==
    { ExportedDocument(ServerDashboard(CurrentRef.uid), export_sharing, order) :
        order \in IterationOrders(PanelTypes(PanelsOf(ServerDashboard(CurrentRef.uid)))) }
CurrentOutputPath == OutputPath(CurrentRef.path, CurrentRef.title)
CurrentScanRaises ==
    export_sharing /\ ScanRaises(PanelsOf(ServerDashboard(CurrentRef.uid)))

Exporting == mpc = "dashboards" /\ di < Len(CurrentNode.dashboards)

\* the export loop goes on after a failure, as if line 148 were wrapped in
\* a try/except that skipped the dashboard
SkipAfterFailure(exception) == di' = di + 1 /\ UNCHANGED <<mpc, exit_status, raised>>

\* line 148 has no handler: an exception of export_dashboard leaves
\* export_dashboards and main()
AfterFailure(exception) == Crash(exception) /\ di' = di

\* lines 141-144
EnterFolder ==
    /\ mpc = "folder"
    /\ fi <= Len(folder_structure)
    /\ IF ~Exists(CurrentNode.path)
       THEN /\ dirs' = Makedirs(dirs, CurrentNode.path)
            /\ total_folders_created' = total_folders_created + 1
       ELSE UNCHANGED <<dirs, total_folders_created>>
    /\ mpc' = "dashboards"
    /\ di' = 0
    /\ UNCHANGED <<files, exit_status, raised, requests, fi,
                   total_dashboards_exported, summary, loopRest>>

\* line 143, os.makedirs raises
CreateFolderFails ==
    /\ mpc = "folder"
    /\ fi <= Len(folder_structure)
    /\ ~Exists(CurrentNode.path)
    /\ Crash("OSError")
    /\ UNCHANGED <<dirs, files, requests, fi, di, total_folders_created,
                   total_dashboards_exported, summary, loopRest>>

\* lines 148-149: export_dashboard returns
ExportOne ==
    /\ Exporting
    /\ ~CurrentScanRaises
    /\ requests' = Append(requests, CurrentRef.uid)
    /\ dirs' = Makedirs(dirs, CurrentRef.path)
    /\ \E doc \in CurrentDocuments : files' = DictSet(files, CurrentOutputPath, doc)
    /\ total_dashboards_exported' = total_dashboards_exported + 1
    /\ di' = di + 1
    /\ UNCHANGED <<mpc, exit_status, raised, fi, total_folders_created, summary,
                   loopRest>>

\* line 95: raise_for_status raises
ExportOneFetchFails ==
    /\ Exporting
    /\ requests' = Append(requests, CurrentRef.uid)
    /\ AfterFailure("HTTPError")
    /\ UNCHANGED <<dirs, files, fi, total_folders_created,
                   total_dashboards_exported, summary, loopRest>>

\* line 104: the scan of the panels raises TypeError
ExportOneScanFails ==
    /\ Exporting
    /\ CurrentScanRaises
    /\ requests' = Append(requests, CurrentRef.uid)
    /\ AfterFailure("TypeError")
    /\ UNCHANGED <<dirs, files, fi, total_folders_created,
                   total_dashboards_exported, summary, loopRest>>

\* line 131: open() raises, the file is untouched
ExportOneOpenFails ==
    /\ Exporting
    /\ ~CurrentScanRaises
    /\ requests' = Append(requests, CurrentRef.uid)
    /\ dirs' = Makedirs(dirs, CurrentRef.path)
    /\ AfterFailure("OSError")
    /\ UNCHANGED <<files, fi, total_folders_created,
                   total_dashboards_exported, summary, loopRest>>

\* lines 131-132: open(..., 'w') has truncated the file and json.dump (or
\* the flush on close) raises: the file is left with part of the document
ExportOneDumpFails ==
    /\ Exporting
    /\ ~CurrentScanRaises
    /\ requests' = Append(requests, CurrentRef.uid)
    /\ dirs' = Makedirs(dirs, CurrentRef.path)
    /\ \E doc \in CurrentDocuments :
          \E n \in 0..(Len(doc) - 1) :
              files' = DictSet(files, CurrentOutputPath, SubSeq(doc, 1, n))
    /\ AfterFailure("OSError")
    /\ UNCHANGED <<fi, total_folders_created, total_dashboards_exported,
                   summary, loopRest>>

\* line 147 exhausted: on to the next folder of line 141
LeaveFolder ==
    /\ mpc = "dashboards"
    /\ di = Len(CurrentNode.dashboards)
    /\ fi' = fi + 1
    /\ mpc' = "folder"
    /\ UNCHANGED <<dirs, files, exit_status, raised, requests, di,
                   total_folders_created, total_dashboards_exported, summary, loopRest>>

\* lines 151-153, and the return of main() with status 0
PrintSummary ==
    /\ mpc = "folder"
    /\ fi > Len(folder_structure)
    /\ summary' = <<[folders |-> total_folders_created,
                     dashboards |-> total_dashboards_exported]>>
    /\ mpc' = "done"
    /\ exit_status' = "0"
    /\ UNCHANGED <<dirs, files, raised, requests, fi, di, total_folders_created,
                   total_dashboards_exported, loopRest>>

LoopNext ==
    \/ EnterFolder
    \/ CreateFolderFails
    \/ ExportOne
    \/ ExportOneFetchFails
    \/ ExportOneScanFails
    \/ ExportOneOpenFails
    \/ ExportOneDumpFails
    \/ LeaveFolder
    \/ PrintSummary

MainNext ==
    \/ CheckUrl
    \/ CheckKey
    \/ CheckDir
    \/ GetFolderList
    \/ GetFolderListFails
    \/ GetAllDashboardsAndFolders
    \/ GetAllDashboardsAndFoldersFails
    \/ BuildFolderStructure
    \/ LoopNext

Spec == MainInit /\ [][MainNext]_vars

\* export_dashboards as main() calls it at line 189
LoopInit ==
    /\ args = [grafana_url |-> "u", api_key |-> "k", save_folder |-> OutputDir,
               export_sharing |-> "absent", force |-> "False"]
    /\ export_sharing \in BOOLEAN
    /\ start_disk \in { d \in StartDisks(OutputDir) : d.dirs = {} <=> d.files = <<>> }
    /\ dirs = start_disk.dirs
    /\ files = start_disk.files
    /\ folders \in FolderLists
    /\ dashboards \in SearchLists(MaxLoopItems)
    /\ i = Len(dashboards)
    /\ folder_structure = build_folder_structure(folders, dashboards, OutputDir)
    /\ bpc = "done"
    /\ mpc = "folder"
    /\ exit_status = "running"
    /\ raised = ""
    /\ requests = <<"folders", "search">>
    /\ fi = 1
    /\ di = 0
    /\ total_folders_created = 0
    /\ total_dashboards_exported = 0
    /\ summary = <<>>
    /\ dashboard = <<>>
    /\ written = <<>>
    /\ epc = "idle"
    /\ SanitizeIdle

SpecLoop == LoopInit /\ [][LoopNext]_vars

-----------------------------------------------------------------------------
(* Properties of main() and export_dashboards *)

\* the destination was a non-empty directory when main() started
StartNonEmpty ==
    /\ ResolvedOutputDir \in start_disk.dirs
    /\ \/ \E q \in start_disk.dirs : IsUnder(q, ResolvedOutputDir)
       \/ \E n \in 1..Len(start_disk.files) :
              IsUnder(start_disk.files[n].k, ResolvedOutputDir)

RefusedAtStart ==
    \/ args.grafana_url = ""
    \/ args.api_key = ""
    \/ (StartNonEmpty /\ ~ForceWrite)

FailedExportStep ==
    /\ mpc = "dashboards"
    /\ requests' # requests
    /\ total_dashboards_exported' = total_dashboards_exported

\* the files this run has written
WrittenByRun == { n \in 1..Len(files) : files[n] \notin Range(start_disk.files) }

StopsAtOnce ==
    /\ mpc # "crashed"
    /\ FailedExportStep =>
          /\ mpc' = "crashed"
          /\ exit_status' = "1"
          /\ requests' = Append(requests, CurrentRef.uid)
          /\ dirs' = dirs
          /\ summary' = <<>>
          /\ UNCHANGED <<fi, di, total_folders_created, total_dashboards_exported>>

\* C9 as stated: when the fetch or the write of a dashboard fails, the run
\* stops at once (nothing happens after the failure: no fetch, no write, no
\* directory, no summary), and every file written for an earlier dashboard
\* is unchanged.
C9_EarlierFilesUnchanged ==
    [][/\ StopsAtOnce
       /\ FailedExportStep =>
             \A n \in WrittenByRun : n <= Len(files') /\ files'[n] = files[n]]_vars

\* C9 amended: when the fetch or the write of a dashboard fails, the run
\* stops at once, and every file at a path other than the failing
\* dashboard's own output path is unchanged and no file is added at another
\* path; the file at that output path, which an earlier dashboard of the
\* same sanitized title in the same folder may have written, may be left
\* truncated by the failed write.
C9_OtherFilesUnchanged ==
    [][/\ StopsAtOnce
       /\ FailedExportStep =>
             /\ \A n \in 1..Len(files) :
                    /\ n <= Len(files')
                    /\ files'[n].k = files[n].k
                    /\ files[n].k # CurrentOutputPath => files'[n] = files[n]
             /\ \A n \in 1..Len(files') :
                    n > Len(files) => files'[n].k = CurrentOutputPath]_vars

\* the write of a second dashboard has failed after the first was written,
\* with another folder still to come
C9_Witness ==
    /\ mpc = "crashed"
    /\ raised = "OSError"
    /\ total_dashboards_exported = 1
    /\ WrittenByRun # {}
    /\ di = 1
    /\ fi < Len(folder_structure)

====
